---- MODULE Spec2Model ----
(***************************************************************************)
(* A model of the academic-PDF bionic reader:                              *)
(*   - bionicHtml (the emphasis transform), one action per branch of its   *)
(*     scan loop, under the specification Spec;                            *)
(*   - reflowAcademicPdf (the reflow engine), one action per page of its   *)
(*     page loop and one for the code after the loop, under SpecReflow.    *)
(* Strings are sequences of characters; a character is a one-element       *)
(* string, or the name of its code point (U4E2D) when it is not ASCII.     *)
(* JavaScript numbers are records [k, v]: k is "fin", "nan", "pinf" or     *)
(* "ninf" and v is the value in units of 1/Scale (0 when not finite).      *)
(***************************************************************************)
EXTENDS Integers, Sequences, FiniteSets, TLC

VARIABLES
  \* bionicHtml: its arguments, its locals and its position
  text, opts, n, englishPercent, out, atSentenceStart, chineseBolded, i, pc,
  \* reflowAcademicPdf: its argument, the number of pages done, its buffers
  \* and results, its position
  pages, pageIdx, titleLines, authorLines, abstractLines, bodyParagraphs,
  abstractParagraphs, title, authors, rpc,
  \* reflowAcademicPdf: the locals of the last iteration of the page loop
  lines, medH, footerLines, bodyLines, mode, noteParagraphs,
  \* history: bodyParagraphs.length when the last iteration began
  emitted

bionicVars == <<text, opts, n, englishPercent, out, atSentenceStart, chineseBolded, i, pc>>

reflowVars == <<pages, pageIdx, titleLines, authorLines, abstractLines, bodyParagraphs,
                abstractParagraphs, title, authors, rpc,
                lines, medH, footerLines, bodyLines, mode, noteParagraphs, emitted>>

vars == <<bionicVars, reflowVars>>

\* ---------------------------------------------------------------- bounds

\* Longest paragraph handed to bionicHtml.
MaxLen == 4

\* ------------------------------------------------------- JavaScript numbers

\* Fixed-point unit of the finite numbers: v counts 1/Scale.
Scale == 10 * 10

Fin(v) == [k |-> "fin", v |-> v]
Num(m) == Fin(m * Scale)
NaN == [k |-> "nan", v |-> 0]
PosInf == [k |-> "pinf", v |-> 0]
NegInf == [k |-> "ninf", v |-> 0]

IsFinite(x) == x.k = "fin"

\* a < b as JavaScript evaluates it: false when either side is NaN.
JSLt(a, b) ==
  CASE a.k = "nan" \/ b.k = "nan" -> FALSE
    [] a.k = "ninf" -> b.k # "ninf"
    [] a.k = "pinf" -> FALSE
    [] b.k = "pinf" -> TRUE
    [] b.k = "ninf" -> FALSE
    [] OTHER -> a.v < b.v

\* a >= b as JavaScript evaluates it: false when either side is NaN.
JSGe(a, b) ==
  CASE a.k = "nan" \/ b.k = "nan" -> FALSE
    [] OTHER -> ~JSLt(a, b)

MathMax(a, b) ==
  IF a.k = "nan" \/ b.k = "nan" THEN NaN ELSE IF JSLt(a, b) THEN b ELSE a

MathMin(a, b) ==
  IF a.k = "nan" \/ b.k = "nan" THEN NaN ELSE IF JSLt(b, a) THEN b ELSE a

MathFloor(x) == IF IsFinite(x) THEN Fin((x.v \div Scale) * Scale) ELSE x

MathCeil(x) == IF IsFinite(x) THEN Fin((-((-x.v) \div Scale)) * Scale) ELSE x

\* len * x for a string length len >= 0.
TimesLength(len, x) ==
  CASE x.k = "nan" -> NaN
    [] x.k \in {"pinf", "ninf"} -> IF len = 0 THEN NaN ELSE x
    [] OTHER -> Fin(len * x.v)

\* The index String.prototype.slice makes of a number: ToIntegerOrInfinity,
\* then relative to the end when negative, then clamped to 0..len.
SliceIndex(x, len) ==
  CASE x.k = "nan" -> 0
    [] x.k = "pinf" -> len
    [] x.k = "ninf" -> 0
    [] OTHER ->
         LET t == IF x.v >= 0 THEN x.v \div Scale ELSE -((-x.v) \div Scale)
         IN  IF t < 0 THEN (IF len + t < 0 THEN 0 ELSE len + t)
             ELSE IF t > len THEN len ELSE t

\* ------------------------------------------------------------- characters

Han == "U4E2D"

\* Characters of Script=Han that the inputs and the program's literals use.
HanChars == {"U4E2D", "U6458", "U8981", "U5F15", "U8A00", "U53C2", "U8003", "U6587",
             "U732E", "U81F4", "U8C22", "U7ED3", "U8BBA", "U9644", "U6CE8"}

LowerLetters == {"a", "b", "c", "d", "e", "f", "g", "h", "i", "j", "k", "l", "m",
                 "n", "o", "p", "q", "r", "s", "t", "u", "v", "w", "x", "y", "z"}

UpperLetters == {"A", "B", "C", "D", "E", "F", "G", "H", "I", "J", "K", "L", "M",
                 "N", "O", "P", "Q", "R", "S", "T", "U", "V", "W", "X", "Y", "Z"}

\* [A-Za-z]
LatinLetters == LowerLetters \cup UpperLetters

\* \d
Digits == {"0", "1", "2", "3", "4", "5", "6", "7", "8", "9"}

\* \s of a JavaScript regular expression, as far as the inputs use it.
WhitespaceChars == {" ", "TAB", "LF", "CR", "U3000", "U00A0"}

SKIP_AT_SENTENCE_START ==
  {" ", "TAB", "LF", "CR", "U201C", "U201D", "U2018", "U2019", "U300C", "U300D",
   "U300E", "U300F", "UFF08", "UFF09", "(", ")", "[", "]", "U3010", "U3011",
   "U300A", "U300B", "U2014", "U2013", "-", "U00B7", "U2026"}

SENTENCE_BOUNDARIES ==
  {"U3002", "UFF01", "UFF1F", "UFF1B", "UFF1A", "UFF0C", "U3001",
   ".", "!", "?", ";", ":", ",", "LF"}

isHan(ch) == ch \in HanChars

isBoundaryChar(ch) == ch \in SENTENCE_BOUNDARIES

IsWhitespace(ch) == ch \in WhitespaceChars

IsLetter(ch) == ch \in LatinLetters

\* ---------------------------------------------------------------- strings

RECURSIVE ReplaceAll(_, _, _)
\* s.replaceAll(c, r) for a one-character pattern c.
ReplaceAll(s, c, r) ==
  IF s = <<>> THEN <<>>
  ELSE (IF Head(s) = c THEN r ELSE <<Head(s)>>) \o ReplaceAll(Tail(s), c, r)

\* escapeHtml with the ampersand replaced last instead of first.
escapeHtmlAmpersandLast(s) ==
  ReplaceAll(
    ReplaceAll(
      ReplaceAll(
        ReplaceAll(
          ReplaceAll(s, "<", <<"&", "l", "t", ";">>),
          ">", <<"&", "g", "t", ";">>),
        "\"", <<"&", "q", "u", "o", "t", ";">>),
      "'", <<"&", "#", "3", "9", ";">>),
    "&", <<"&", "a", "m", "p", ";">>)

escapeHtml(s) ==
  ReplaceAll(
    ReplaceAll(
      ReplaceAll(
        ReplaceAll(
          ReplaceAll(s, "&", <<"&", "a", "m", "p", ";">>),
          "<", <<"&", "l", "t", ";">>),
        ">", <<"&", "g", "t", ";">>),
      "\"", <<"&", "q", "u", "o", "t", ";">>),
    "'", <<"&", "#", "3", "9", ";">>)

StrongOpen == <<"<", "s", "t", "r", "o", "n", "g", ">">>
StrongClose == <<"<", "/", "s", "t", "r", "o", "n", "g", ">">>

\* Whether p occurs in s at index j (0-based).
HasAt(s, j, p) == j + Len(p) <= Len(s) /\ SubSeq(s, j + 1, j + Len(p)) = p

\* s.slice(from, to) with both indices already made by SliceIndex.
Slice(s, from, to) == IF to <= from THEN <<>> ELSE SubSeq(s, from + 1, to)

\* ----------------------------------------------------------- real numbers
\* The coordinates of the reflow engine are finite; they are modelled as exact
\* fractions [n, d] in lowest terms with d > 0.

\* F applied to the value of v: v is evaluated once, whatever F does with it.
With(v, F(_)) == CHOOSE r \in {F(x) : x \in {v}} : TRUE

RECURSIVE GCD(_, _)
GCD(a, b) == IF b = 0 THEN a ELSE With(a % b, LAMBDA r : GCD(b, r))

Abs(a) == IF a < 0 THEN -a ELSE a

\* a / b for whole numbers a and b, b # 0.
Lowest(a, b) ==
  LET s == IF b < 0 THEN -1 ELSE 1
  IN  With(GCD(Abs(a), Abs(b)), LAMBDA g : [n |-> (s * a) \div g, d |-> (s * b) \div g])

R(a, b) == With(<<a, b>>, LAMBDA p : Lowest(p[1], p[2]))

RI(a) == [n |-> a, d |-> 1]

RAdd(a, b) == With(<<a, b>>, LAMBDA p : R(p[1].n * p[2].d + p[2].n * p[1].d, p[1].d * p[2].d))
RSub(a, b) == With(<<a, b>>, LAMBDA p : R(p[1].n * p[2].d - p[2].n * p[1].d, p[1].d * p[2].d))
RMul(a, b) == With(<<a, b>>, LAMBDA p : R(p[1].n * p[2].n, p[1].d * p[2].d))
RDiv(a, b) == With(<<a, b>>, LAMBDA p : R(p[1].n * p[2].d, p[1].d * p[2].n))
RLt(a, b) == With(<<a, b>>, LAMBDA p : p[1].n * p[2].d < p[2].n * p[1].d)
RLe(a, b) == With(<<a, b>>, LAMBDA p : p[1].n * p[2].d <= p[2].n * p[1].d)
RGt(a, b) == RLt(b, a)
RGe(a, b) == RLe(b, a)
RAbs(a) == With(a, LAMBDA v : [n |-> Abs(v.n), d |-> v.d])
RMax(a, b) == With(<<a, b>>, LAMBDA p : IF RLt(p[1], p[2]) THEN p[2] ELSE p[1])
RMin(a, b) == With(<<a, b>>, LAMBDA p : IF RLt(p[2], p[1]) THEN p[2] ELSE p[1])

\* v || fallback for a finite v.
OrElse(v, fallback) == With(v, LAMBDA x : IF x.n = 0 THEN fallback ELSE x)

\* -------------------------------------------------------- sorting, median

\* Array.prototype.sort (stable) of records by the fields k1, then k2.
KeyLess(a, b) == RLt(a.k1, b.k1) \/ (a.k1 = b.k1 /\ RLt(a.k2, b.k2))

\* The place (1-based) of element j of s after a stable sort.
RankIn(s, j) ==
  Cardinality({k \in 1..Len(s) :
                 KeyLess(s[k], s[j]) \/ (~KeyLess(s[j], s[k]) /\ k < j)}) + 1

\* The function f on 1..n as a tuple.
Tuple(f) == f \o <<>>

SortValues(s) ==
  With(Tuple([j \in 1..Len(s) |-> RankIn(s, j)]),
       LAMBDA rank : Tuple([r \in 1..Len(s) |-> s[CHOOSE j \in 1..Len(s) : rank[j] = r]]))

SortKeyed(s) == With(Tuple(s), LAMBDA v : SortValues(v))

\* The values v of the keyed records, in the order of their keys.
SortedValues(keyed) ==
  With(SortKeyed(keyed), LAMBDA sorted : Tuple([j \in 1..Len(sorted) |-> sorted[j].v]))

SortNumbers(s) ==
  With(s, LAMBDA xs : SortedValues([j \in 1..Len(xs) |-> [k1 |-> xs[j], k2 |-> RI(0), v |-> xs[j]]]))

\* s sorted by (a, b) => a.y - b.y.
SortByY(s) ==
  With(s, LAMBDA ls : SortedValues([j \in 1..Len(ls) |-> [k1 |-> ls[j].y, k2 |-> RI(0), v |-> ls[j]]]))

\* s sorted by (a, b) => a.x - b.x.
SortByX(s) ==
  With(s, LAMBDA ls : SortedValues([j \in 1..Len(ls) |-> [k1 |-> ls[j].x, k2 |-> RI(0), v |-> ls[j]]]))

\* s sorted by (a, b) => (a.y !== b.y ? a.y - b.y : a.x - b.x).
SortByYThenX(s) ==
  With(s, LAMBDA ls : SortedValues([j \in 1..Len(ls) |-> [k1 |-> ls[j].y, k2 |-> ls[j].x, v |-> ls[j]]]))

MedianOfSorted(sorted) ==
  LET mid == Len(sorted) \div 2
  IN  IF Len(sorted) % 2 = 0
      THEN RDiv(RAdd(sorted[mid], sorted[mid + 1]), RI(2))
      ELSE sorted[mid + 1]

median(values) ==
  With(values, LAMBDA v : IF Len(v) = 0 THEN RI(0)
                          ELSE With(SortNumbers(v), LAMBDA sorted : MedianOfSorted(sorted)))

PercentileOfSorted(sorted, p) ==
  LET f == (p.n * (Len(sorted) - 1)) \div p.d
      idx == IF f < 0 THEN 0 ELSE IF f > Len(sorted) - 1 THEN Len(sorted) - 1 ELSE f
  IN  sorted[idx + 1]

percentile(values, p) ==
  With(values, LAMBDA v : IF Len(v) = 0 THEN RI(0)
                          ELSE With(SortNumbers(v), LAMBDA sorted : PercentileOfSorted(sorted, p)))

\* values.filter((h) => Number.isFinite(h) && h > 0)
PositiveOnly(values) == SelectSeq(values, LAMBDA h : RGt(h, RI(0)))

\* ------------------------------------------------------------------- text

RECURSIVE TrimStart(_)
TrimStart(s) == IF s # <<>> /\ IsWhitespace(Head(s)) THEN TrimStart(Tail(s)) ELSE s

RECURSIVE TrimEnd(_)
TrimEnd(s) ==
  IF s # <<>> /\ IsWhitespace(s[Len(s)]) THEN TrimEnd(SubSeq(s, 1, Len(s) - 1)) ELSE s

Trim(s) == TrimEnd(TrimStart(s))

\* text.replace(/\s+/g, "") === ""
IsBlank(s) == \A j \in 1..Len(s) : IsWhitespace(s[j])

HyphenChars == {"-", "U2011", "U2013", "U2014"}

OpeningChars == {"(", "[", "{", "\"", "'", "U201C", "U2018", "U300A", "U3010", "UFF08"}

ClosingChars == {")", "}", "]", "\"", "'", "U201D", "U2019", "U300B", "U3011", "UFF09"}

IsAlnum(c) == IsLetter(c) \/ c \in Digits

\* \w
IsWordChar(c) == IsAlnum(c) \/ c = "_"

isCjk(c) == c \in HanChars

\* Only the ASCII hyphen taken for a hyphen.
endsWithHyphenAsciiOnly(s) ==
  LET t == TrimEnd(s) IN t # <<>> /\ t[Len(t)] = "-"

endsWithHyphen(s) ==
  LET t == TrimEnd(s) IN t # <<>> /\ t[Len(t)] \in HyphenChars

startsWithLetter(s) ==
  LET t == TrimStart(s) IN t # <<>> /\ IsLetter(t[1])

needsSpaceBetween(a, b) ==
  LET aTrim == TrimEnd(a)
      bTrim == TrimStart(b)
  IN  IF aTrim = <<>> \/ bTrim = <<>> THEN FALSE
      ELSE LET last == aTrim[Len(aTrim)]
               first == bTrim[1]
           IN  IF isCjk(last) \/ isCjk(first) THEN FALSE
               ELSE IF IsWhitespace(last) \/ IsWhitespace(first) THEN FALSE
               ELSE IF first \in OpeningChars THEN FALSE
               ELSE IF last \in ClosingChars THEN FALSE
               ELSE IF last \in HyphenChars THEN FALSE
               ELSE IsAlnum(last) /\ IsAlnum(first)

\* out += needsSpaceBetween(out, piece) ? ` ${piece}` : piece
JoinPiece(acc, piece) ==
  IF needsSpaceBetween(acc, piece) THEN acc \o <<" ">> \o piece ELSE acc \o piece

RECURSIVE JoinFirst(_, _)
\* The loop of joinTextPieces over the first k pieces.
JoinFirst(pieces, k) ==
  IF k = 0 THEN <<>>
  ELSE With(JoinFirst(pieces, k - 1),
            LAMBDA acc : IF acc = <<>> THEN pieces[k] ELSE JoinPiece(acc, pieces[k]))

joinTextPieces(pieces) == With(pieces, LAMBDA v : JoinFirst(v, Len(v)))

\* -------------------------------------------------------------- buildLines

Heights(items) == [j \in 1..Len(items) |-> items[j].height]

\* The median height without its fallback.
MedianHeightNoFallback(heights) == median(PositiveOnly(heights))

\* medH of buildLines and of the page loop.
MedianHeight(heights) == OrElse(median(PositiveOnly(heights)), RI(10))

\* yTolerance of buildLines.
YTolerance(items) == RMax(RI(2), RMul(MedianHeight(Heights(items)), R(6, 10)))

\* Lines 96-102: one item added to the groups {y, items}.
GroupStep(groups, item, tol) ==
  IF groups = <<>> \/ RGt(RAbs(RSub(item.y, groups[Len(groups)].y)), tol)
  THEN Append(groups, [y |-> item.y, items |-> <<item>>])
  ELSE LET last == groups[Len(groups)]
           count == Len(last.items) + 1
       IN  [groups EXCEPT ![Len(groups)] =
              [y |-> RDiv(RAdd(RMul(last.y, RI(count - 1)), item.y), RI(count)),
               items |-> Append(last.items, item)]]

RECURSIVE GroupLines(_, _, _)
\* The loop of lines 95-103 over the first k items of sorted.
GroupLines(sorted, k, tol) ==
  IF k = 0 THEN <<>>
  ELSE With(GroupLines(sorted, k - 1, tol), LAMBDA groups : GroupStep(groups, sorted[k], tol))

RECURSIVE MinOf(_)
MinOf(s) == IF Len(s) = 1 THEN s[1] ELSE RMin(s[1], MinOf(Tail(s)))

RECURSIVE MaxOf(_)
MaxOf(s) == IF Len(s) = 1 THEN s[1] ELSE RMax(s[1], MaxOf(Tail(s)))

\* The TextLine of one group whose items are sorted by x; id names the
\* object: page p, group g.
LineOfSorted(y, lineItems, p, g) ==
  [id |-> [p |-> p, l |-> g],
   y |-> y,
   xMin |-> MinOf([j \in 1..Len(lineItems) |-> lineItems[j].x]),
   xMax |-> MaxOf([j \in 1..Len(lineItems) |-> RAdd(lineItems[j].x, lineItems[j].width)]),
   height |-> median(Heights(lineItems)),
   text |-> joinTextPieces([j \in 1..Len(lineItems) |-> lineItems[j].text])]

LineOf(group, p, g) ==
  With(SortByX(group.items), LAMBDA lineItems : LineOfSorted(group.y, lineItems, p, g))

\* Lines 105-114 on the groups of the page at index p.
LinesOfGroups(groups, p) ==
  SelectSeq([g \in 1..Len(groups) |-> LineOf(groups[g], p, g)], LAMBDA l : ~IsBlank(l.text))

\* buildLines(items), for the page at index p of the document.
buildLines(items, p) ==
  IF Len(items) = 0 THEN <<>>
  ELSE With(YTolerance(items),
            LAMBDA tol : With(SortByYThenX(items),
                              LAMBDA sorted : With(GroupLines(sorted, Len(sorted), tol),
                                                   LAMBDA groups : LinesOfGroups(groups, p))))

\* ------------------------------------------------------ headings (regexes)

\* The lower-case form of a character, for the i flag.
ToLower(c) ==
  CASE c = "A" -> "a" [] c = "B" -> "b" [] c = "C" -> "c" [] c = "D" -> "d"
    [] c = "E" -> "e" [] c = "F" -> "f" [] c = "G" -> "g" [] c = "H" -> "h"
    [] c = "I" -> "i" [] c = "J" -> "j" [] c = "K" -> "k" [] c = "L" -> "l"
    [] c = "M" -> "m" [] c = "N" -> "n" [] c = "O" -> "o" [] c = "P" -> "p"
    [] c = "Q" -> "q" [] c = "R" -> "r" [] c = "S" -> "s" [] c = "T" -> "t"
    [] c = "U" -> "u" [] c = "V" -> "v" [] c = "W" -> "w" [] c = "X" -> "x"
    [] c = "Y" -> "y" [] c = "Z" -> "z" [] OTHER -> c

LowerCase(s) == [j \in 1..Len(s) |-> ToLower(s[j])]

AbstractWord == <<"a", "b", "s", "t", "r", "a", "c", "t">>

\* 摘要
ZhAbstractWord == <<"U6458", "U8981">>

\* \b between index j and j + 1 (0-based j) of s.
WordBoundaryAt(s, j) ==
  (j >= 1 /\ IsWordChar(s[j])) # (j < Len(s) /\ IsWordChar(s[j + 1]))

\* /\bAbstract\b/i.test(s)
HasAbstractWord(s) ==
  \E j \in 0..Len(s) :
    /\ HasAt(LowerCase(s), j, AbstractWord)
    /\ WordBoundaryAt(s, j)
    /\ WordBoundaryAt(s, j + Len(AbstractWord))

\* /摘要/.test(s)
HasZhAbstractWord(s) == \E j \in 0..Len(s) : HasAt(s, j, ZhAbstractWord)

RECURSIVE SkipWhitespace(_, _)
\* The index after the whitespace that starts at index j (0-based) of s.
SkipWhitespace(s, j) ==
  IF j < Len(s) /\ IsWhitespace(s[j + 1]) THEN SkipWhitespace(s, j + 1) ELSE j

stripAbstractHeading(lineText) ==
  LET a == SkipWhitespace(lineText, 0)
      b == IF HasAt(lineText, a, ZhAbstractWord) THEN a + Len(ZhAbstractWord)
           ELSE IF HasAt(LowerCase(lineText), a, AbstractWord) THEN a + Len(AbstractWord)
           ELSE -1
  IN  IF b < 0 THEN Trim(lineText)
      ELSE LET c == SkipWhitespace(lineText, b)
               d == IF c < Len(lineText) /\ lineText[c + 1] \in {":", "UFF1A"} THEN c + 1 ELSE c
               e == SkipWhitespace(lineText, d)
           IN  Trim(Slice(lineText, e, Len(lineText)))

\* 引言, 参考文献, 致谢, 结论
SectionWords ==
  { <<"U5F15", "U8A00">>, <<"U53C2", "U8003", "U6587", "U732E">>,
    <<"U81F4", "U8C22">>, <<"U7ED3", "U8BBA">> }

RECURSIVE SkipDigits(_, _)
SkipDigits(s, j) == IF j < Len(s) /\ s[j + 1] \in Digits THEN SkipDigits(s, j + 1) ELSE j

RECURSIVE SkipDotted(_, _)
\* The index after the groups (\.\d+)* that start at index j of s.
SkipDotted(s, j) ==
  IF j + 1 < Len(s) /\ s[j + 1] = "." /\ s[j + 2] \in Digits
  THEN SkipDotted(s, SkipDigits(s, j + 1))
  ELSE j

looksLikeSectionHeading(lineText) ==
  LET t == Trim(lineText)
  IN  IF t = <<>> THEN FALSE
      ELSE IF \E w \in SectionWords : HasAt(t, 0, w) /\ WordBoundaryAt(t, Len(w)) THEN TRUE
      ELSE LET a == SkipDigits(t, 0)
               b == SkipDotted(t, a)
               c == SkipWhitespace(t, b)
           IN  a > 0 /\ c > b /\ c < Len(t)

\* ----------------------------------------------------------- detectColumns

Single == [type |-> "single", splitX |-> RI(0), leftCenter |-> RI(0), rightCenter |-> RI(0)]

Double(c1, c2) ==
  [type |-> "double", splitX |-> RDiv(RAdd(c1, c2), RI(2)), leftCenter |-> c1, rightCenter |-> c2]

RECURSIVE SumOf(_)
SumOf(s) == IF s = <<>> THEN RI(0) ELSE RAdd(s[1], SumOf(Tail(s)))

Mean(s) == RDiv(SumOf(s), RI(Len(s)))

RECURSIVE KMeans(_, _, _, _)
\* Lines 148-158: the centres after the iterations that are left, or "empty"
\* when a group is empty.
KMeans(xs, c1, c2, left) ==
  IF left = 0 THEN [empty |-> FALSE, c1 |-> c1, c2 |-> c2]
  ELSE LET g1 == SelectSeq(xs, LAMBDA x : RLe(RAbs(RSub(x, c1)), RAbs(RSub(x, c2))))
           g2 == SelectSeq(xs, LAMBDA x : ~RLe(RAbs(RSub(x, c1)), RAbs(RSub(x, c2))))
       IN  IF Len(g1) = 0 \/ Len(g2) = 0 THEN [empty |-> TRUE, c1 |-> c1, c2 |-> c2]
           ELSE With(<<Mean(g1), Mean(g2)>>,
                     LAMBDA m : With(left - 1,
                                     LAMBDA rest : IF RGt(m[1], m[2])
                                                   THEN KMeans(xs, m[2], m[1], rest)
                                                   ELSE KMeans(xs, m[1], m[2], rest)))

\* The iterations of the clustering loop.
KMeansIterations == 10

\* The fewest lines detectColumns clusters.
MinClusteringLines == 8

\* The separation test turned round.
ModeOfCentresFarIsSingle(clusteringLines, c1, c2, pageWidth) ==
  IF RGt(RSub(c2, c1), RMul(pageWidth, R(25, 100))) THEN Single ELSE Double(c1, c2)

\* Lines 160-169: the mode the centres c1 and c2 give.
ModeOfCentres(clusteringLines, c1, c2, pageWidth) ==
  LET mid == RDiv(RAdd(c1, c2), RI(2))
      separation == RSub(c2, c1)
      nLeft == Len(SelectSeq(clusteringLines, LAMBDA l : RLe(l.xMin, mid)))
      nRight == Len(SelectSeq(clusteringLines, LAMBDA l : RGt(l.xMin, mid)))
      minClusterSize == IF nLeft < nRight THEN nLeft ELSE nRight
  IN  IF RLt(separation, RMul(pageWidth, R(25, 100))) THEN Single
      ELSE IF RLt(RI(minClusterSize), RMul(RI(Len(clusteringLines)), R(2, 10))) THEN Single
      ELSE Double(c1, c2)

\* Lines 141-169 on the lines that are clustered.
ClusterColumns(clusteringLines, pageWidth) ==
  IF Len(clusteringLines) < MinClusteringLines THEN Single
  ELSE With([j \in 1..Len(clusteringLines) |-> clusteringLines[j].xMin],
            LAMBDA xs :
              With(<<percentile(xs, R(25, 100)), percentile(xs, R(75, 100))>>,
                   LAMBDA c : With(KMeans(xs, RMin(c[1], c[2]), RMax(c[1], c[2]), KMeansIterations),
                                   LAMBDA km : IF km.empty THEN Single
                                               ELSE ModeOfCentres(clusteringLines, km.c1, km.c2,
                                                                  pageWidth))))

detectColumns(ls, pageWidth) ==
  With(SelectSeq(ls, LAMBDA l : RLe(RDiv(RSub(l.xMax, l.xMin), pageWidth), R(75, 100))),
       LAMBDA narrowLines :
         ClusterColumns(IF Len(narrowLines) >= MinClusteringLines THEN narrowLines ELSE ls,
                        pageWidth))

\* -------------------------------------------------------- linesToParagraphs

\* One step of the loop of lines 182-206 on {paragraphs, current}.
ParagraphStep(st, sorted, j, typicalGap) ==
  LET line == sorted[j]
      gap == IF j > 1 THEN RSub(line.y, sorted[j - 1].y) ELSE RI(0)
      newParagraph == j = 1 \/ RGt(gap, RMul(typicalGap, R(16, 10)))
      nextPiece == Trim(line.text)
  IN  IF newParagraph
      THEN [paragraphs |-> IF Trim(st.current) # <<>>
                           THEN Append(st.paragraphs, Trim(st.current))
                           ELSE st.paragraphs,
            current |-> Trim(line.text)]
      ELSE IF st.current = <<>> THEN [st EXCEPT !.current = nextPiece]
      ELSE IF endsWithHyphen(st.current) /\ startsWithLetter(nextPiece)
           THEN LET t == TrimEnd(st.current)
                IN  [st EXCEPT !.current = SubSeq(t, 1, Len(t) - 1) \o TrimStart(nextPiece)]
      ELSE [st EXCEPT !.current = JoinPiece(st.current, nextPiece)]

RECURSIVE ParagraphLoop(_, _, _)
\* The loop of lines 182-206 over the first j lines of sorted.
ParagraphLoop(sorted, j, typicalGap) ==
  IF j = 0 THEN [paragraphs |-> <<>>, current |-> <<>>]
  ELSE With(ParagraphLoop(sorted, j - 1, typicalGap),
            LAMBDA st : ParagraphStep(st, sorted, j, typicalGap))

\* The list linesToParagraphs works on.
SortedForParagraphs(ls) == SortByY(ls)

\* Lines 175-209 on the sorted lines.
ParagraphsOfSorted(sorted) ==
  With(OrElse(median(PositiveOnly([j \in 1..(Len(sorted) - 1) |->
                                     RSub(sorted[j + 1].y, sorted[j].y)])),
              RI(10)),
       LAMBDA typicalGap :
         With(ParagraphLoop(sorted, Len(sorted), typicalGap),
              LAMBDA st : IF Trim(st.current) # <<>>
                          THEN Append(st.paragraphs, Trim(st.current))
                          ELSE st.paragraphs))

linesToParagraphs(ls) ==
  IF Len(ls) = 0 THEN <<>>
  ELSE With(SortedForParagraphs(ls), LAMBDA sorted : ParagraphsOfSorted(sorted))

\* ------------------------------------------------------------- bionicHtml

\* p of splitEnglishWord.
EffectivePercent(percent) == MathMin(Fin(50), MathMax(Fin(40), percent))

\* cut of splitEnglishWord.
WordCut(word, percent) ==
  MathMax(Num(1),
          MathMin(Num(Len(word)),
                  MathCeil(TimesLength(Len(word), EffectivePercent(percent)))))

splitEnglishWord(word, percent) ==
  LET cut == WordCut(word, percent)
      len == Len(word)
  IN  [head |-> Slice(word, 0, SliceIndex(cut, len)),
       tail |-> Slice(word, SliceIndex(cut, len), len)]

RECURSIVE WordEnd(_, _)
\* The end (exclusive, 0-based) of the run [A-Za-z'] that goes on from j.
WordEnd(s, j) ==
  IF j < Len(s) /\ (IsLetter(s[j + 1]) \/ s[j + 1] = "'") THEN WordEnd(s, j + 1) ELSE j

\* wordRe.exec(text) with lastIndex = j: the match, or <<>> for null.
MatchWord(s, j) ==
  IF j < Len(s) /\ IsLetter(s[j + 1]) THEN Slice(s, j, WordEnd(s, j + 1)) ELSE <<>>

\* n of bionicHtml.
ClampBoldN(v) == MathMin(Num(6), MathMax(Num(2), MathFloor(v)))

\* clampN of the settings control.
clampN(v) == IF ~IsFinite(v) THEN Num(4) ELSE MathMin(Num(6), MathMax(Num(2), MathFloor(v)))

DEFAULT_OPTS == [chineseBoldN |-> Num(4), englishBoldPercent |-> Fin(45)]

\* The options a caller hands to bionicHtml.
OptionInputs ==
  { DEFAULT_OPTS,
    [chineseBoldN |-> Num(2), englishBoldPercent |-> Fin(40)],
    [chineseBoldN |-> Fin(250), englishBoldPercent |-> Fin(60)],
    [chineseBoldN |-> Num(7), englishBoldPercent |-> Fin(10)],
    [chineseBoldN |-> NaN, englishBoldPercent |-> NaN],
    [chineseBoldN |-> PosInf, englishBoldPercent |-> NegInf],
    [chineseBoldN |-> NegInf, englishBoldPercent |-> PosInf] }

\* The characters of the paragraphs: a Latin letter, the apostrophe, a Han
\* character, a skip character, two escaped symbols and one sentence-boundary
\* character b.
Alphabet(b) == {"a", "'", Han, " ", "&", "<", b}

\* The characters escapeHtml rewrites, with a letter and the semicolon.
EscapedAlphabet == {"a", ";", "&", "<", ">", "\"", "'"}

RECURSIVE SeqsUpTo(_, _)
SeqsUpTo(S, len) ==
  IF len = 0 THEN {<<>>}
  ELSE LET shorter == SeqsUpTo(S, len - 1)
       IN  shorter \cup {Append(s, c) : s \in {t \in shorter : Len(t) = len - 1}, c \in S}

\* The paragraphs handed to bionicHtml: every string of at most MaxLen
\* characters with the comma as its boundary character, and every shorter one
\* with any other boundary character or over the escaped characters.
TextInputs ==
  SeqsUpTo(Alphabet(","), MaxLen)
    \cup UNION {SeqsUpTo(Alphabet(b), MaxLen - 1) : b \in SENTENCE_BOUNDARIES}
    \cup SeqsUpTo(EscapedAlphabet, MaxLen - 1)

\* --------------------------------------------------------- reflowAcademicPdf

\* title and authors: null, or a string.
Null == [isNull |-> TRUE, text |-> <<>>]
Some(t) == [isNull |-> FALSE, text |-> t]

\* 【附注】
NoteMarker == <<"U3010", "U9644", "U6CE8", "U3011">>

\* The state of reflowAcademicPdf before it is called with document doc.
ReflowAt(doc) ==
  /\ pages = doc
  /\ pageIdx = 0
  /\ titleLines = <<>>
  /\ authorLines = <<>>
  /\ abstractLines = <<>>
  /\ bodyParagraphs = <<>>
  /\ abstractParagraphs = <<>>
  /\ title = Null
  /\ authors = Null
  /\ rpc = "call"
  /\ lines = <<>>
  /\ medH = RI(0)
  /\ footerLines = <<>>
  /\ bodyLines = <<>>
  /\ mode = Single
  /\ noteParagraphs = <<>>
  /\ emitted = 0

\* The state of bionicHtml before it is called with paragraph t and options o.
BionicAt(t, o) ==
  /\ text = t
  /\ opts = o
  /\ pc = "call"
  /\ n = Num(0)
  /\ englishPercent = Num(0)
  /\ out = <<>>
  /\ atSentenceStart = FALSE
  /\ chineseBolded = 0
  /\ i = 0

Init ==
  /\ \E t \in TextInputs, o \in OptionInputs : BionicAt(t, o)
  /\ ReflowAt(<<>>)

\* Lines 446-454: the locals before the loop.
Enter ==
  /\ pc = "call"
  /\ n' = ClampBoldN(opts.chineseBoldN)
  /\ englishPercent' = opts.englishBoldPercent
  /\ out' = <<>>
  /\ atSentenceStart' = TRUE
  /\ chineseBolded' = 0
  /\ i' = 0
  /\ pc' = "scan"
  /\ UNCHANGED <<text, opts, reflowVars>>

ch == text[i + 1]

InLoop == pc = "scan" /\ i < Len(text)

\* Lines 460-468: an English word token.
WordToken ==
  /\ InLoop
  /\ MatchWord(text, i) # <<>>
  /\ LET word == MatchWord(text, i)
         parts == splitEnglishWord(word, englishPercent)
     IN  /\ out' = out \o StrongOpen \o escapeHtml(parts.head) \o StrongClose
                       \o escapeHtml(parts.tail)
         /\ i' = i + Len(word)
  /\ UNCHANGED <<text, opts, n, englishPercent, atSentenceStart, chineseBolded, pc, reflowVars>>

\* Boundary without the reset of chineseBolded.
BoundaryKeepsCount ==
  /\ pc = "scan" /\ i < Len(text)
  /\ MatchWord(text, i) = <<>>
  /\ isBoundaryChar(text[i + 1])
  /\ out' = out \o escapeHtml(<<text[i + 1]>>)
  /\ atSentenceStart' = TRUE
  /\ i' = i + 1
  /\ UNCHANGED <<text, opts, n, englishPercent, chineseBolded, pc, reflowVars>>

\* Lines 471-477: a sentence boundary.
Boundary ==
  /\ InLoop
  /\ MatchWord(text, i) = <<>>
  /\ isBoundaryChar(ch)
  /\ out' = out \o escapeHtml(<<ch>>)
  /\ atSentenceStart' = TRUE
  /\ chineseBolded' = 0
  /\ i' = i + 1
  /\ UNCHANGED <<text, opts, n, englishPercent, pc, reflowVars>>

AtStart == InLoop /\ MatchWord(text, i) = <<>> /\ ~isBoundaryChar(ch) /\ atSentenceStart

IsSkip(c) == c \in SKIP_AT_SENTENCE_START \/ IsWhitespace(c)

\* The condition of line 487.
CanBoldHan(c) == isHan(c) /\ JSLt(Num(chineseBolded), n)

\* Lines 481-485: a skipped character at the start of a sentence.
SkipAtStart ==
  /\ AtStart
  /\ IsSkip(ch)
  /\ out' = out \o escapeHtml(<<ch>>)
  /\ i' = i + 1
  /\ UNCHANGED <<text, opts, n, englishPercent, atSentenceStart, chineseBolded, pc, reflowVars>>

\* BoldHan without the quota: neither the test chineseBolded < n nor the
\* clearing of atSentenceStart once n characters are bolded.
BoldHanNoQuota ==
  /\ AtStart
  /\ ~IsSkip(ch)
  /\ isHan(ch)
  /\ out' = out \o StrongOpen \o escapeHtml(<<ch>>) \o StrongClose
  /\ chineseBolded' = chineseBolded + 1
  /\ i' = i + 1
  /\ UNCHANGED <<text, opts, n, englishPercent, atSentenceStart, pc, reflowVars>>

\* Lines 487-493: a Han character at the start of a sentence.
BoldHan ==
  /\ AtStart
  /\ ~IsSkip(ch)
  /\ CanBoldHan(ch)
  /\ out' = out \o StrongOpen \o escapeHtml(<<ch>>) \o StrongClose
  /\ chineseBolded' = chineseBolded + 1
  /\ atSentenceStart' = IF JSGe(Num(chineseBolded + 1), n) THEN FALSE ELSE atSentenceStart
  /\ i' = i + 1
  /\ UNCHANGED <<text, opts, n, englishPercent, pc, reflowVars>>

\* Lines 497-500: any other character at the start of a sentence.
OtherAtStart ==
  /\ AtStart
  /\ ~IsSkip(ch)
  /\ ~CanBoldHan(ch)
  /\ atSentenceStart' = FALSE
  /\ out' = out \o escapeHtml(<<ch>>)
  /\ i' = i + 1
  /\ UNCHANGED <<text, opts, n, englishPercent, chineseBolded, pc, reflowVars>>

\* Lines 503-504: a character inside a sentence.
Plain ==
  /\ InLoop
  /\ MatchWord(text, i) = <<>>
  /\ ~isBoundaryChar(ch)
  /\ ~atSentenceStart
  /\ out' = out \o escapeHtml(<<ch>>)
  /\ i' = i + 1
  /\ UNCHANGED <<text, opts, n, englishPercent, atSentenceStart, chineseBolded, pc, reflowVars>>

\* Line 507.
Return ==
  /\ pc = "scan"
  /\ i >= Len(text)
  /\ pc' = "done"
  /\ UNCHANGED <<text, opts, n, englishPercent, out, atSentenceStart, chineseBolded, i, reflowVars>>

Next ==
  \/ Enter
  \/ WordToken
  \/ Boundary
  \/ SkipAtStart
  \/ BoldHan
  \/ OtherAtStart
  \/ Plain
  \/ Return

Spec == Init /\ [][Next]_vars

\* l.y / page.pageHeight
YNorm(l, page) == RDiv(l.y, page.pageHeight)

\* list.includes(l), set.has(l): the same object.
Includes(list, l) == \E j \in 1..Len(list) : list[j].id = l.id

\* The test of lines 227-232.
IsFooterLine(l, page, med) ==
  \/ RGt(YNorm(l, page), R(88, 100))
  \/ RGt(YNorm(l, page), R(75, 100)) /\ RLt(l.height, RMul(med, R(85, 100)))

\* array.findIndex(test), 1-based, 0 when no element passes.
FindIndex(list, Test(_)) ==
  LET hits == {j \in 1..Len(list) : Test(list[j])}
  IN  IF hits = {} THEN 0 ELSE CHOOSE j \in hits : \A k \in hits : j <= k

\* The tests of lines 246-254.
IsAbstractHead(l, page) ==
  RLt(YNorm(l, page), R(5, 10)) /\ HasAbstractWord(l.text) /\ Len(Trim(l.text)) <= 40

IsZhAbstractHead(l, page) ==
  RLt(YNorm(l, page), R(5, 10)) /\ HasZhAbstractWord(l.text) /\ Len(Trim(l.text)) <= 40

RECURSIVE AbstractRun(_, _, _, _)
\* The lines the loop of lines 261-267 pushes from index j (1-based) on.
AbstractRun(nonFooterLines, j, headY, page) ==
  IF j > Len(nonFooterLines) THEN <<>>
  ELSE With(<<nonFooterLines[j], j + 1>>,
            LAMBDA at :
              IF RLe(at[1].y, headY) THEN AbstractRun(nonFooterLines, at[2], headY, page)
              ELSE IF RGt(YNorm(at[1], page), R(65, 100)) THEN <<>>
              ELSE IF looksLikeSectionHeading(at[1].text) THEN <<>>
              ELSE <<at[1]>> \o AbstractRun(nonFooterLines, at[2], headY, page))

\* Lines 237-239: the title lines of a first page.
TitleCandidate(nonFooterLines, page, med) ==
  LET topLines == SelectSeq(nonFooterLines, LAMBDA l : RLt(YNorm(l, page), R(22, 100)))
  IN  SelectSeq(topLines, LAMBDA l : RGt(l.height, RMul(med, R(125, 100))))

\* Lines 241-244: the author lines of a first page.
AuthorCandidate(nonFooterLines, page, med) ==
  LET topLines == SelectSeq(nonFooterLines, LAMBDA l : RLt(YNorm(l, page), R(22, 100)))
      afterTitle == SelectSeq(topLines,
                              LAMBDA l : ~Includes(TitleCandidate(nonFooterLines, page, med), l))
  IN  SelectSeq(afterTitle,
                LAMBDA l : RGe(l.height, RMul(med, R(9, 10))) /\ RLe(l.height, RMul(med, R(125, 100))))

\* Lines 257-272: abstractLines once the heading is found at headIdx (1-based).
AbstractFrom(before, nonFooterLines, headIdx, headLine, page, p) ==
  LET pushed == before \o AbstractRun(nonFooterLines, headIdx, headLine.y, page)
      maybeInline == stripAbstractHeading(headLine.text)
  IN  IF maybeInline # <<>>
      THEN <<[headLine EXCEPT !.text = maybeInline, !.id = [p |-> p, l |-> 0]]>> \o pushed
      ELSE pushed

\* Lines 246-272: abstractLines after a first page, p its index in the document.
AbstractAfter(before, nonFooterLines, page, p) ==
  LET abstractHeadIdx == FindIndex(nonFooterLines, LAMBDA l : IsAbstractHead(l, page))
      zhHeadIdx == FindIndex(nonFooterLines, LAMBDA l : IsZhAbstractHead(l, page))
  IN  With(IF abstractHeadIdx >= 1 THEN abstractHeadIdx ELSE zhHeadIdx,
           LAMBDA headIdx :
             IF headIdx < 1 THEN before
             ELSE With(nonFooterLines[headIdx],
                       LAMBDA headLine :
                         AbstractFrom(before, nonFooterLines, headIdx, headLine, page, p)))

\* Lines 339-345.
OrderedLines(body, m) ==
  IF m.type = "double"
  THEN SortByY(SelectSeq(body, LAMBDA l : RLe(l.xMin, m.splitX)))
         \o SortByY(SelectSeq(body, LAMBDA l : RGt(l.xMin, m.splitX)))
  ELSE SortByY(body)

\* The marker pushed whether or not the page has footer paragraphs.
PageParagraphsAlwaysMarked(body, notes) == body \o <<NoteMarker>> \o notes

\* Lines 347-353: what one page appends to bodyParagraphs.
PageParagraphs(body, notes) ==
  body \o (IF Len(notes) > 0 THEN <<NoteMarker>> \o notes ELSE <<>>)

\* Lines 223-234: the lines, their median height and the footer lines of the
\* page at index p.
PageLines(page, p) ==
  With(buildLines(page.items, p),
       LAMBDA built :
         With(MedianHeight([j \in 1..Len(built) |-> built[j].height]),
              LAMBDA med :
                With(SelectSeq(built, LAMBDA l : IsFooterLine(l, page, med)),
                     LAMBDA footer :
                       [lines |-> built, medH |-> med, footerLines |-> footer,
                        nonFooterLines |-> SelectSeq(built, LAMBDA l : ~Includes(footer, l))])))

\* Lines 276-287: the body lines, with the buffers as they are after the page.
BodyLines(page, nonFooterLines, titleAfter, authorAfter, abstractAfter) ==
  LET excluded == IF page.pageNumber = 1 THEN titleAfter \o authorAfter \o abstractAfter
                  ELSE <<>>
      bodyLinesRaw == SelectSeq(nonFooterLines, LAMBDA l : ~Includes(excluded, l))
  IN  SelectSeq(bodyLinesRaw,
                LAMBDA l : RGt(YNorm(l, page), R(12, 100)) /\ RLt(YNorm(l, page), R(9, 10)))

\* Lines 223-353: one iteration of the page loop.
ProcessPage ==
  /\ rpc = "loop"
  /\ pageIdx < Len(pages)
  /\ \E page \in {pages[pageIdx + 1]} :
     \E pl \in {PageLines(page, pageIdx + 1)} :
     \E titleAfter \in {IF page.pageNumber = 1
                         THEN titleLines \o TitleCandidate(pl.nonFooterLines, page, pl.medH)
                         ELSE titleLines} :
     \E authorAfter \in {IF page.pageNumber = 1
                          THEN authorLines \o AuthorCandidate(pl.nonFooterLines, page, pl.medH)
                          ELSE authorLines} :
     \E abstractAfter \in {IF page.pageNumber = 1
                            THEN AbstractAfter(abstractLines, pl.nonFooterLines, page, pageIdx + 1)
                            ELSE abstractLines} :
     \E body \in {BodyLines(page, pl.nonFooterLines, titleAfter, authorAfter, abstractAfter)} :
     \E columns \in {detectColumns(body, page.pageWidth)} :
     \E notes \in {linesToParagraphs(SortByY(pl.footerLines))} :
       /\ lines' = pl.lines
       /\ medH' = pl.medH
       /\ footerLines' = SortByY(pl.footerLines)
       /\ titleLines' = titleAfter
       /\ authorLines' = authorAfter
       /\ abstractLines' = abstractAfter
       /\ bodyLines' = body
       /\ mode' = columns
       /\ noteParagraphs' = notes
       /\ bodyParagraphs' =
            bodyParagraphs \o PageParagraphs(linesToParagraphs(OrderedLines(body, columns)), notes)
       /\ emitted' = Len(bodyParagraphs)
  /\ pageIdx' = pageIdx + 1
  /\ UNCHANGED <<pages, abstractParagraphs, title, authors, rpc, bionicVars>>

Texts(ls) == [j \in 1..Len(ls) |-> ls[j].text]

\* Lines 356-363: the code after the page loop.
Finish ==
  /\ rpc = "loop"
  /\ pageIdx >= Len(pages)
  /\ abstractLines' = SortByY(abstractLines)
  /\ abstractParagraphs' =
       IF Len(abstractLines) > 0
       THEN abstractParagraphs \o linesToParagraphs(SortByY(abstractLines))
       ELSE abstractParagraphs
  /\ title' = IF Len(titleLines) > 0 THEN Some(joinTextPieces(Texts(titleLines))) ELSE Null
  /\ authors' = IF Len(authorLines) > 0 THEN Some(joinTextPieces(Texts(authorLines))) ELSE Null
  /\ rpc' = "done"
  /\ UNCHANGED <<pages, pageIdx, titleLines, authorLines, bodyParagraphs,
                 lines, medH, footerLines, bodyLines, mode, noteParagraphs, emitted, bionicVars>>

\* Lines 213-220: the buffers before the page loop.
Begin ==
  /\ rpc = "call"
  /\ rpc' = "loop"
  /\ UNCHANGED <<pages, pageIdx, titleLines, authorLines, abstractLines, bodyParagraphs,
                 abstractParagraphs, title, authors,
                 lines, medH, footerLines, bodyLines, mode, noteParagraphs, emitted, bionicVars>>

NextReflow ==
  \/ Begin
  \/ ProcessPage
  \/ Finish

\* ------------------------------------------------------------ the documents

\* Most pages of a document.
MaxPages == 2

\* Lines in each column of a two-column page.
ColumnLines == 4

\* A text fragment (PdfTextItem); its page fields repeat the page's and are
\* never read.
Item(t, x, y, w, h) ==
  [text |-> t, x |-> RI(x), y |-> RI(y), width |-> RI(w), height |-> RI(h)]

\* A page (ExtractedPage) of 600 by 800.
Page(number, items) ==
  [pageNumber |-> number, pageWidth |-> RI(600), pageHeight |-> RI(800), items |-> items]

Letters == <<"a", "b", "c", "d", "e", "f", "g", "h", "i", "j", "k", "l", "m", "n">>

\* A footnote line in the footer band (y / pageHeight = 0.95).
FootItems == <<Item(<<"z">>, 50, 760, 100, 8)>>

\* No fragment.
EmptyPage(number) == Page(number, <<>>)

\* Only whitespace.
BlankPage(number) == Page(number, <<Item(<<" ">>, 50, 300, 10, 10), Item(<<" ", " ">>, 50, 400, 10, 10)>>)

\* Fragments of height zero: two that share a line, one on its own, one low
\* on the page.
ZeroHeightPage(number) ==
  Page(number, <<Item(<<"p">>, 50, 300, 40, 0), Item(<<"q">>, 100, 305, 40, 0),
                 Item(<<"r">>, 50, 330, 40, 0), Item(<<"s">>, 50, 620, 40, 0)>>)

\* count one-fragment lines in one column, 20 apart, with or without a footnote.
ShortPage(number, count, foot) ==
  Page(number,
       [j \in 1..count |-> Item(<<Letters[j]>>, 50, 180 + 20 * j, 300, 10)]
         \o (IF foot THEN FootItems ELSE <<>>))

\* Two columns of ColumnLines lines at x = 50 and x = 400; the lines of the
\* right column lie shift below those of the left column.
DoublePage(number, shift, foot) ==
  Page(number,
       [j \in 1..ColumnLines |-> Item(<<Letters[j]>>, 50, 180 + 20 * j, 100, 10)]
         \o [j \in 1..ColumnLines |->
               Item(<<Letters[ColumnLines + j]>>, 400, 180 + 20 * j + shift, 100, 10)]
         \o (IF foot THEN FootItems ELSE <<>>))

\* How far the right column is shifted: interleaved with the left column, or
\* wholly below it.
ColumnShifts == {10, 20 * ColumnLines + 20}

\* The first page of a paper: a title line of height 18, the heading
\* "Abstract", two abstract lines and three body lines, all of height 12.
\* yTitle and yHead place the title and the heading, the abstract lines follow
\* the heading 14 apart, the body starts at yBody with the gaps gap1 and gap2,
\* and the first body line reads "1 b" when numbered.
PaperPage(yTitle, yHead, yBody, gap1, gap2, numbered) ==
  Page(1,
       << Item(<<"T">>, 100, yTitle, 300, 18),
          Item(<<"A", "b", "s", "t", "r", "a", "c", "t">>, 100, yHead, 300, 12),
          Item(<<"x">>, 100, yHead + 14, 300, 12),
          Item(<<"y">>, 100, yHead + 28, 300, 12),
          Item(IF numbered THEN <<"1", " ", "b">> ELSE <<"b">>, 100, yBody, 300, 12),
          Item(<<"c">>, 100, yBody + gap1, 300, 12),
          Item(<<"d">>, 100, yBody + gap1 + gap2, 300, 12) >>)

PaperPages ==
  { PaperPage(yTitle, yTitle + dHead, yBody, 14, gap2, numbered) :
      yTitle \in {80, 200}, dHead \in {40, 120}, yBody \in {400, 560},
      gap2 \in {14, 70}, numbered \in BOOLEAN }

\* Headings that carry the start of the abstract: "Abstract: x", "摘要：x".
InlineHeadings ==
  { <<"A", "b", "s", "t", "r", "a", "c", "t", ":", " ", "x">>,
    <<"U6458", "U8981", "UFF1A", "x">> }

\* The first page of a paper whose abstract starts on its heading line: a
\* title line of height 18, the heading at yHead, one more abstract line and
\* three body lines, all of height 12.
InlineHeadingPage(head, yHead) ==
  Page(1,
       << Item(<<"T">>, 100, 80, 300, 18),
          Item(head, 100, yHead, 300, 12),
          Item(<<"y">>, 100, yHead + 14, 300, 12),
          Item(<<"b">>, 100, 560, 300, 12),
          Item(<<"c">>, 100, 574, 300, 12),
          Item(<<"d">>, 100, 588, 300, 12) >>)

\* The pages a document of several pages is made of.
BasicPages(number) ==
  { EmptyPage(number), ZeroHeightPage(number), ShortPage(number, 2, FALSE),
    ShortPage(number, 3, TRUE), DoublePage(number, 10, TRUE) }

SinglePages ==
  BasicPages(1) \cup PaperPages
    \cup {BlankPage(1)}
    \cup {InlineHeadingPage(head, yHead) : head \in InlineHeadings, yHead \in {120, 200}}
    \cup {ShortPage(1, count, foot) : count \in 1..(2 * ColumnLines), foot \in BOOLEAN}
    \cup {DoublePage(1, shift, foot) : shift \in ColumnShifts, foot \in BOOLEAN}

RECURSIVE DocsOfLength(_)
\* The documents of len pages, numbered from 1.
DocsOfLength(len) ==
  IF len = 0 THEN {<<>>}
  ELSE {Append(d, q) : d \in DocsOfLength(len - 1), q \in BasicPages(len)}

DocInputs ==
  {<<>>} \cup {<<q>> : q \in SinglePages} \cup UNION {DocsOfLength(len) : len \in 2..MaxPages}

InitReflow ==
  /\ \E doc \in DocInputs : ReflowAt(doc)
  /\ BionicAt(<<>>, DEFAULT_OPTS)

SpecReflow == InitReflow /\ [][NextReflow]_vars

\* --------------------------------- lines 289-347 on body lines of any kind

\* Most lines handed to detectColumns.
MaxClusterLines == 9

\* Most lines handed to linesToParagraphs with texts of their own.
MaxParagraphLines == 3

\* The lines with the given xMin values, all of the same width, 20 apart.
ColumnInput(xMins, width) ==
  [j \in 1..Len(xMins) |->
     [id |-> [p |-> 1, l |-> j], y |-> RI(100 + 20 * j), xMin |-> RI(xMins[j]),
      xMax |-> RI(xMins[j] + width), height |-> RI(10), text |-> <<Letters[j]>>]]

\* Lines at x = 50 and x = 400 in every order and proportion, and lines that
\* all stand at x = 200; short lines of width 100 or 450 (75% of the page).
ColumnInputs ==
  { ColumnInput(xMins, width) :
      xMins \in SeqsUpTo({50, 400}, MaxClusterLines)
                 \cup {[j \in 1..len |-> 200] : len \in 1..MaxClusterLines},
      width \in {100, 450} }

\* What a line can read: words that end with a hyphen of each kind, with a
\* space or with a letter, and words that start with a letter, a space, a
\* digit or a Han character.
LineTexts ==
  { <<"e", "x", "a", "m", "-">>, <<"e", "x", "a", "m", " ">>, <<"e", "x", "a", "m">>,
    <<"p", "l", "e", " ", "t", "e", "x", "t">>, <<" ", "p", "l", "e">>,
    <<"e", "U2013">>, <<"e", "U2014", " ">>, <<"1", "x">>, <<Han, "a">> }

\* The lines with the given texts in one column, 20 apart, the last one
\* 100 further down when far.
ParagraphInput(texts, far) ==
  [j \in 1..Len(texts) |->
     [id |-> [p |-> 1, l |-> j],
      y |-> RI(100 + 20 * j + (IF far /\ j = Len(texts) THEN 100 ELSE 0)),
      xMin |-> RI(50), xMax |-> RI(350), height |-> RI(10), text |-> texts[j]]]

ParagraphInputs ==
  { ParagraphInput(texts, far) :
      texts \in SeqsUpTo(LineTexts, MaxParagraphLines) \ SeqsUpTo(LineTexts, 1),
      far \in BOOLEAN }

\* bodyLines as some page of width 600 gives them, before line 289.
InitBodyLines ==
  /\ \E input \in ColumnInputs \cup ParagraphInputs : bodyLines = input
  /\ pages = <<EmptyPage(1)>>
  /\ pageIdx = 0
  /\ titleLines = <<>> /\ authorLines = <<>> /\ abstractLines = <<>>
  /\ bodyParagraphs = <<>> /\ abstractParagraphs = <<>>
  /\ title = Null /\ authors = Null
  /\ rpc = "columns"
  /\ lines = <<>> /\ medH = RI(10) /\ footerLines = <<>>
  /\ mode = Single
  /\ noteParagraphs = <<>>
  /\ emitted = 0
  /\ BionicAt(<<>>, DEFAULT_OPTS)

\* Line 289: const mode = detectColumns(bodyLines, page.pageWidth).
DetectColumns ==
  /\ rpc = "columns"
  /\ mode' = detectColumns(bodyLines, pages[1].pageWidth)
  /\ rpc' = "ordered"
  /\ UNCHANGED <<pages, pageIdx, titleLines, authorLines, abstractLines, bodyParagraphs,
                 abstractParagraphs, title, authors,
                 lines, medH, footerLines, bodyLines, noteParagraphs, emitted, bionicVars>>

\* Lines 339-347: bodyParagraphs.push(...linesToParagraphs(orderedLines)).
AssembleParagraphs ==
  /\ rpc = "ordered"
  /\ bodyParagraphs' = bodyParagraphs \o linesToParagraphs(OrderedLines(bodyLines, mode))
  /\ rpc' = "assembled"
  /\ UNCHANGED <<pages, pageIdx, titleLines, authorLines, abstractLines,
                 abstractParagraphs, title, authors,
                 lines, medH, footerLines, bodyLines, mode, noteParagraphs, emitted,
                 bionicVars>>

NextBodyLines ==
  \/ DetectColumns
  \/ AssembleParagraphs

SpecBodyLines == InitBodyLines /\ [][NextBodyLines]_vars

\* ------------------------------------------ reading the markup back (claims)

RECURSIVE StripFrom(_, _)
\* s from index j on (0-based) without its <strong> and </strong> markers.
StripFrom(s, j) ==
  IF j >= Len(s) THEN <<>>
  ELSE IF HasAt(s, j, StrongOpen) THEN StripFrom(s, j + Len(StrongOpen))
  ELSE IF HasAt(s, j, StrongClose) THEN StripFrom(s, j + Len(StrongClose))
  ELSE <<s[j + 1]>> \o StripFrom(s, j + 1)

StripStrong(s) == StripFrom(s, 0)

\* The five entities escapeHtml writes, each with the character it stands for.
Entities ==
  { [e |-> <<"&", "a", "m", "p", ";">>, c |-> "&"],
    [e |-> <<"&", "l", "t", ";">>, c |-> "<"],
    [e |-> <<"&", "g", "t", ";">>, c |-> ">"],
    [e |-> <<"&", "q", "u", "o", "t", ";">>, c |-> "\""],
    [e |-> <<"&", "#", "3", "9", ";">>, c |-> "'"] }

EntityAt(s, j) == {x \in Entities : HasAt(s, j, x.e)}

RECURSIVE UnescapeFrom(_, _)
\* s from index j on with every entity replaced by its character, in one pass.
UnescapeFrom(s, j) ==
  IF j >= Len(s) THEN <<>>
  ELSE IF EntityAt(s, j) # {}
       THEN LET x == CHOOSE y \in EntityAt(s, j) : TRUE
            IN  <<x.c>> \o UnescapeFrom(s, j + Len(x.e))
       ELSE <<s[j + 1]>> \o UnescapeFrom(s, j + 1)

Unescape(s) == UnescapeFrom(s, 0)

RECURSIVE MaskFrom(_, _, _)
\* For every character of the text that s (from index j on) stands for, whether
\* it lies between <strong> and </strong>.
MaskFrom(s, j, bold) ==
  IF j >= Len(s) THEN <<>>
  ELSE IF HasAt(s, j, StrongOpen) THEN MaskFrom(s, j + Len(StrongOpen), TRUE)
  ELSE IF HasAt(s, j, StrongClose) THEN MaskFrom(s, j + Len(StrongClose), FALSE)
  ELSE IF EntityAt(s, j) # {}
       THEN LET x == CHOOSE y \in EntityAt(s, j) : TRUE
            IN  <<bold>> \o MaskFrom(s, j + Len(x.e), bold)
       ELSE <<bold>> \o MaskFrom(s, j + 1, bold)

BoldMask(s) == MaskFrom(s, 0, FALSE)

Scanning == pc \in {"scan", "done"}

\* The effective N is a whole number from 2 to 6.
EffectiveNInRange == IsFinite(n) /\ n.v \in {m * Scale : m \in 2..6}

\* The first position (1-based) of the sentence that position k lies in: the
\* one after the last boundary character before k, or the paragraph's edge.
SentenceFirst(k) ==
  LET bs == {j \in 1..(k - 1) : isBoundaryChar(text[j])}
  IN  IF bs = {} THEN 1 ELSE (CHOOSE j \in bs : \A m \in bs : m <= j) + 1

\* C1: the output of bionicHtml, with the <strong> markers removed and the
\* five entities un-escaped, is the scanned part of the input character for
\* character, and the whole input when the scan has returned.
C1_RoundTrip ==
  Scanning => Unescape(StripStrong(out)) = SubSeq(text, 1, i)

C1_Witness ==
  /\ pc = "done"
  /\ text = <<"a", "'", "&", "<">>
  /\ Unescape(StripStrong(out)) = text
  /\ out # text

\* C2: with an effective N in 2..6, chineseBolded never exceeds N and no
\* sentence of the scanned text has more than N bolded Han characters.
C2_AtMostNBolded ==
  (Scanning /\ EffectiveNInRange) =>
    /\ Num(chineseBolded).v <= n.v
    /\ LET mask == BoldMask(out)
       IN  /\ Len(mask) = i
           /\ \A k \in 1..i :
                Cardinality({m \in SentenceFirst(k)..k : isHan(text[m]) /\ mask[m]}) * Scale
                  <= n.v

C2_Witness ==
  /\ pc = "done"
  /\ n = Num(2)
  /\ text = <<Han, Han, Han>>
  /\ BoldMask(out) = <<TRUE, TRUE, FALSE>>
  /\ chineseBolded = 2

\* C3 (as claimed): within a sentence, once a character that is neither a Han
\* character nor a skip character has been scanned, no Han character after it
\* and before the next sentence boundary is bolded.
C3_StopsAtFirstOther ==
  Scanning =>
    LET mask == BoldMask(out)
    IN  \A k \in 1..i : \A j \in SentenceFirst(k)..(k - 1) :
          (~isHan(text[j]) /\ ~IsSkip(text[j]) /\ isHan(text[k])) => ~mask[k]

\* Whether position k of the text lies in an English word token: a Latin
\* letter, or an apostrophe that goes on a token.
RECURSIVE InToken(_)
InToken(k) ==
  \/ IsLetter(text[k])
  \/ text[k] = "'" /\ k > 1 /\ InToken(k - 1)

\* The positions where a maximal English word token starts.
TokenStarts == {k \in 1..Len(text) : IsLetter(text[k]) /\ (k = 1 \/ ~InToken(k - 1))}

\* The last position of the token that starts at k.
TokenLast(k) ==
  CHOOSE e \in k..Len(text) :
    /\ \A m \in k..e : InToken(m)
    /\ e = Len(text) \/ ~InToken(e + 1)

\* The values P clamped to [0.4, 0.5] can have, in hundredths.
ClampedPercents(p) ==
  CASE p.k = "fin" -> {IF p.v < 40 THEN 40 ELSE IF p.v > 50 THEN 50 ELSE p.v}
    [] p.k = "pinf" -> {50}
    [] p.k = "ninf" -> {40}
    [] OTHER -> 40..50

\* clamp(ceil(len x pp / 100), 1, len)
ClaimedHead(len, pp) ==
  LET c == (len * pp + 99) \div 100
  IN  IF c < 1 THEN 1 ELSE IF c > len THEN len ELSE c

\* C4 (as claimed): of every English word token of length L the first
\* clamp(ceil(L x P'), 1, L) characters are bolded and the rest are not, with
\* P' the supplied P clamped to [0.4, 0.5], whatever P is supplied.
C4_HeadLength ==
  Scanning =>
    LET mask == BoldMask(out)
    IN  \A k \in {t \in TokenStarts : t <= i} :
          LET e == TokenLast(k)
              len == e - k + 1
          IN  \E pp \in ClampedPercents(englishPercent) :
                LET head == ClaimedHead(len, pp)
                IN  /\ 1 <= head /\ head <= len
                    /\ \A m \in k..e : mask[m] = (m < k + head)

\* C5 (as claimed): whatever N and P are handed to bionicHtml, the effective
\* N is a whole number from 2 to 6, a non-finite N has become the default 4,
\* and the effective P lies in [0.4, 0.5].
C5_ParametersClamped ==
  Scanning =>
    /\ EffectiveNInRange
    /\ ~IsFinite(opts.chineseBoldN) => n = clampN(opts.chineseBoldN)
    /\ LET p == EffectivePercent(englishPercent)
       IN  IsFinite(p) /\ 40 <= p.v /\ p.v <= 50

\* The boundary characters the README and the specification list.
ListedBoundaries ==
  {"U3002", "UFF01", "UFF1F", "UFF1B", "UFF1A", "UFF0C", "U3001",
   ".", "!", "?", ";", ":", ",", "LF"}

\* Whether position k is a Han character that only skip characters and fewer
\* than N Han characters separate from the sentence boundary before it.
LeadsSentence(k) ==
  LET f == SentenceFirst(k)
  IN  /\ isHan(text[k])
      /\ f > 1
      /\ \A m \in f..(k - 1) : isHan(text[m]) \/ (IsSkip(text[m]) /\ ~InToken(m))
      /\ Cardinality({m \in f..(k - 1) : isHan(text[m])}) * Scale < n.v

\* C8: every listed boundary character is scanned as a sentence boundary: it
\* is emitted unbolded and leaves atSentenceStart = TRUE and chineseBolded = 0
\* whatever the state before it, and with an effective N in 2..6 the Han
\* characters after it (skip characters apart) are bolded afresh up to N.
C8_BoundaryResets ==
  Scanning =>
    LET mask == BoldMask(out)
    IN  /\ \A k \in 1..i : text[k] \in ListedBoundaries =>
             /\ ~mask[k]
             /\ k = i => (atSentenceStart /\ chineseBolded = 0)
        /\ EffectiveNInRange => \A k \in 1..i : LeadsSentence(k) => mask[k]

C8_Witness ==
  /\ pc = "done"
  /\ n = Num(2)
  /\ text = <<Han, Han, ",", Han>>
  /\ BoldMask(out) = <<TRUE, TRUE, FALSE, TRUE>>
  /\ chineseBolded = 1
  /\ atSentenceStart

\* ------------------------------------------------ the page loop (claims)

\* What the page processed last appended to bodyParagraphs.
PageSlice == SubSeq(bodyParagraphs, emitted + 1, Len(bodyParagraphs))

\* Where the marker paragraph stands in a list of paragraphs.
MarkerPlaces(paragraphs) == {j \in 1..Len(paragraphs) : paragraphs[j] = NoteMarker}

\* The body paragraphs among those the page processed last appended.
PageBodySlice ==
  LET slice == PageSlice
      places == MarkerPlaces(slice)
  IN  IF places = {} THEN slice
      ELSE SubSeq(slice, 1, (CHOOSE j \in places : \A k \in places : j <= k) - 1)

RECURSIVE Flatten(_)
\* The paragraphs as one text, a space between two paragraphs.
Flatten(paragraphs) ==
  IF paragraphs = <<>> THEN <<>>
  ELSE IF Len(paragraphs) = 1 THEN paragraphs[1]
  ELSE paragraphs[1] \o <<" ">> \o Flatten(Tail(paragraphs))

\* Where t first occurs in s (0-based), Len(s) when it does not occur.
PositionIn(s, t) ==
  LET hits == {j \in 0..(Len(s) - 1) : HasAt(s, j, t)}
  IN  IF hits = {} THEN Len(s) ELSE CHOOSE j \in hits : \A k \in hits : j <= k

\* C6 (as claimed): on a page detected as Double the text of every
\* left-column body line (xMin <= splitX) stands in the page's body
\* paragraphs before the text of every right-column body line, and within
\* a column the lines stand in ascending y, whatever the y values are.
C6_ColumnOrder ==
  (pageIdx >= 1 /\ mode.type = "double") =>
    LET flat == Flatten(PageBodySlice)
        IsLeft(l) == RLe(l.xMin, mode.splitX)
    IN  \A a, b \in 1..Len(bodyLines) :
          LET la == bodyLines[a]
              lb == bodyLines[b]
          IN  /\ PositionIn(flat, la.text) < Len(flat)
              /\ (IsLeft(la) /\ ~IsLeft(lb)) =>
                    PositionIn(flat, la.text) < PositionIn(flat, lb.text)
              /\ (IsLeft(la) = IsLeft(lb) /\ RLt(la.y, lb.y)) =>
                    PositionIn(flat, la.text) < PositionIn(flat, lb.text)

\* Whether the page at index k of the document has a line in the footer band.
HasFooterLines(k) == PageLines(pages[k], k).footerLines # <<>>

\* What C7 says of one state: the marker count, and what the page processed
\* last appended.
MarkerAfterBody ==
  /\ Cardinality(MarkerPlaces(bodyParagraphs))
       = Cardinality({k \in 1..pageIdx : HasFooterLines(k)})
  /\ pageIdx >= 1 =>
       LET slice == PageSlice
           body == linesToParagraphs(OrderedLines(bodyLines, mode))
       IN  /\ emitted <= Len(bodyParagraphs)
           /\ SubSeq(slice, 1, Len(body)) = body
           /\ IF HasFooterLines(pageIdx)
              THEN /\ noteParagraphs # <<>>
                   /\ MarkerPlaces(slice) = {Len(body) + 1}
                   /\ SubSeq(slice, Len(body) + 2, Len(slice)) = noteParagraphs
              ELSE /\ MarkerPlaces(slice) = {}
                   /\ Len(slice) = Len(body)

\* C7: bodyParagraphs holds the marker once for each processed page that has
\* footer lines and for no other page; what a page appends is its body
\* paragraphs and then, when it has footer lines, the marker followed by its
\* footer paragraphs to the end; and a step only appends: the paragraphs of
\* the earlier pages stay in front, untouched.
C7_MarkerPerFooterPage ==
  /\ []MarkerAfterBody
  /\ [][\A j \in 1..Len(bodyParagraphs) :
            /\ j <= Len(bodyParagraphs')
            /\ bodyParagraphs'[j] = bodyParagraphs[j]]_vars

C7_Witness ==
  /\ rpc = "done"
  /\ Len(pages) = 2
  /\ HasFooterLines(1) /\ HasFooterLines(2)
  /\ Cardinality(MarkerPlaces(bodyParagraphs)) = 2
  /\ bodyParagraphs[Len(bodyParagraphs) - 1] = NoteMarker
  /\ emitted >= 3

\* C9: the call always returns (every state before the return has a step),
\* and it returns the fallbacks: a page without a line of positive height
\* has median height 10, a page with fewer than 8 body lines is Single, and
\* a document that gave no title, author or abstract line returns title and
\* authors absent and no abstract paragraph; the empty document and a
\* document of pages without fragments return nothing at all.
C9_GracefulDegradation ==
  /\ rpc # "done" => ENABLED NextReflow
  /\ pageIdx >= 1 =>
       /\ (\A j \in 1..Len(lines) : ~RGt(lines[j].height, RI(0))) => medH = RI(10)
       /\ Len(bodyLines) < 8 => mode = Single
       /\ pages[pageIdx].items = <<>> => (lines = <<>> /\ PageSlice = <<>>)
  /\ rpc = "done" =>
       /\ titleLines = <<>> => title = Null
       /\ authorLines = <<>> => authors = Null
       /\ abstractLines = <<>> => abstractParagraphs = <<>>
       /\ (\A k \in 1..Len(pages) : pages[k].items = <<>>) =>
            /\ title = Null /\ authors = Null
            /\ abstractParagraphs = <<>> /\ bodyParagraphs = <<>>

C9_Witness ==
  /\ rpc = "done"
  /\ Len(pages) = 1
  /\ Len(lines) = 3
  /\ \A j \in 1..Len(lines) : lines[j].height = RI(0)
  /\ medH = RI(10)
  /\ mode = Single
  /\ title = Null /\ authors = Null /\ abstractParagraphs = <<>>
  /\ Len(bodyParagraphs) >= 1

\* C10 (as claimed): of every one-page document made of a title line of
\* height 18, the heading "Abstract", two abstract lines and three body
\* lines of height 12, none in the footer band, the call returns a title,
\* one abstract paragraph, one body paragraph and no marker paragraph.
C10_EndToEnd ==
  (rpc = "done" /\ Len(pages) = 1 /\ pages[1] \in PaperPages) =>
    /\ ~title.isNull
    /\ Len(abstractParagraphs) = 1
    /\ Len(bodyParagraphs) = 1
    /\ MarkerPlaces(bodyParagraphs) = {}

\* ------------------------------------------------- detectColumns (claims)

\* How many of the lines stand at x.
CountAt(ls, x) == Cardinality({j \in 1..Len(ls) : ls[j].xMin = RI(x)})

\* At least 8 short lines, each at x = 50 or x = 400, the two counts equal or
\* one apart.
TwoBalancedClusters(ls, pageWidth) ==
  /\ Len(ls) >= 8
  /\ \A j \in 1..Len(ls) :
       /\ ls[j].xMin \in {RI(50), RI(400)}
       /\ RLe(RDiv(RSub(ls[j].xMax, ls[j].xMin), pageWidth), R(75, 100))
  /\ CountAt(ls, 50) - CountAt(ls, 400) \in {-1, 0, 1}

\* C11: on a page of width 600, detectColumns answers Double with splitX 225,
\* leftCenter 50 and rightCenter 400 for at least 8 short lines in two
\* balanced clusters at x = 50 and x = 400, and Single for lines that all
\* have the same xMin.
C11_DetectColumns ==
  rpc \in {"ordered", "assembled"} =>
    /\ TwoBalancedClusters(bodyLines, pages[1].pageWidth) =>
         mode = [type |-> "double", splitX |-> RI(225),
                 leftCenter |-> RI(50), rightCenter |-> RI(400)]
    /\ (\A j, k \in 1..Len(bodyLines) : bodyLines[j].xMin = bodyLines[k].xMin) =>
         mode = Single

C11_Witness ==
  /\ rpc = "ordered"
  /\ Len(bodyLines) = 9
  /\ TwoBalancedClusters(bodyLines, pages[1].pageWidth)
  /\ bodyLines[1].xMin = RI(400) /\ bodyLines[2].xMin = RI(50)
  /\ bodyLines[1].xMax = RI(850)
  /\ mode.type = "double" /\ mode.splitX = RI(225)

\* --------------------------------------------- linesToParagraphs (claims)

\* Whether trimmed text t ends with a hyphen-family character.
EndsWithHyphenChar(t) == t # <<>> /\ t[Len(t)] \in {"-", "U2011", "U2013", "U2014"}

\* The spacing rule: a space between a letter or digit and a letter or digit.
SpacedJoin(acc, next) ==
  IF acc # <<>> /\ next # <<>> /\ IsAlnum(acc[Len(acc)]) /\ IsAlnum(next[1])
  THEN acc \o <<" ">> \o next
  ELSE acc \o next

\* Whether the claim says how the accumulated text and the next line join.
JoinIsClaimed(acc, next) ==
  ~EndsWithHyphenChar(acc) \/ (next # <<>> /\ IsLetter(next[1]))

\* The join C12 claims.
ClaimedJoin(acc, next) ==
  IF EndsWithHyphenChar(acc) THEN SubSeq(acc, 1, Len(acc) - 1) \o next
  ELSE SpacedJoin(acc, next)

RECURSIVE ClaimedText(_, _)
\* The paragraph C12 claims of the first k lines of ls, <<"?">> once a join
\* the claim does not speak of comes up.
ClaimedText(ls, k) ==
  IF k = 1 THEN Trim(ls[1].text)
  ELSE With(<<ClaimedText(ls, k - 1), Trim(ls[k].text)>>,
            LAMBDA at : IF at[1] = <<"?">> \/ ~JoinIsClaimed(at[1], at[2]) THEN <<"?">>
                        ELSE ClaimedJoin(at[1], at[2]))

\* Lines one below the other, all the same distance apart: one paragraph.
EvenlySpaced(ls) ==
  /\ Len(ls) >= 2
  /\ \A j \in 1..(Len(ls) - 1) : RLt(ls[j].y, ls[j + 1].y)
  /\ \A j \in 2..(Len(ls) - 1) : RSub(ls[j + 1].y, ls[j].y) = RSub(ls[j].y, ls[j - 1].y)

\* C12: lines of one paragraph are joined as claimed: where the accumulated
\* text ends with a hyphen-family character and the next line, trimmed,
\* starts with a Latin letter, the hyphen goes and no space comes; where the
\* accumulated text does not end with a hyphen, the spacing rule joins them.
C12_HyphenationRepair ==
  (rpc = "assembled" /\ EvenlySpaced(bodyLines) /\ mode = Single) =>
    LET claimed == ClaimedText(bodyLines, Len(bodyLines))
    IN  claimed # <<"?">> => bodyParagraphs = <<Trim(claimed)>>

C12_Witness ==
  /\ rpc = "assembled"
  /\ Len(bodyLines) = 3
  /\ EvenlySpaced(bodyLines)
  /\ bodyLines[1].text = <<"e", "U2013">>
  /\ bodyLines[2].text = <<"e", "x", "a", "m", "-">>
  /\ bodyLines[3].text = <<"p", "l", "e", " ", "t", "e", "x", "t">>
  /\ bodyParagraphs = <<<<"e", "e", "x", "a", "m", "p", "l", "e", " ", "t", "e", "x", "t">>>>

\* ------------------------------------------------ region lines (claims)

\* Whether a and b are the same line of the page, whatever their text.
SameLine(a, b) == a.y = b.y /\ a.xMin = b.xMin /\ a.xMax = b.xMax

\* C13 (as claimed): once page 1 is done, no line of the page that gave its
\* text to the title, the authors or the abstract is a body line; in
\* particular not a heading line whose inline content went to the abstract.
C13_RegionLinesLeaveBody ==
  (rpc = "loop" /\ pageIdx = 1) =>
    LET consumed == titleLines \o authorLines \o abstractLines
    IN  \A b \in 1..Len(bodyLines) : \A r \in 1..Len(consumed) :
          ~SameLine(bodyLines[b], consumed[r])

====
